---- MODULE Spec2Model ----
(***************************************************************************)
(* Analytical ice-temperature solvers of icetemperature/lib/                *)
(* analytical_solutions.py: Robin_T, Rezvan_T, Meyer_T and Perol_T.         *)
(*                                                                         *)
(* Floating-point numbers are fixed-point integers with Scale units per    *)
(* 1.0, together with the IEEE specials (nan, +inf, -inf) and a flag that  *)
(* tells a numpy scalar (whose division by zero yields inf or nan) from a  *)
(* Python float (whose division by zero raises ZeroDivisionError).  An     *)
(* exception travelling through an expression is a value whose tag is the  *)
(* exception's name.  Signed zeros are not distinguished.                  *)
(***************************************************************************)
EXTENDS Integers, Sequences, FiniteSets, TLC

\* fixed-point units per 1.0 of a Python/numpy float
Scale == 1000

\* ------------------------------------------------------------------------
\* Float values

Errors == {"ZeroDivisionError", "NameError"}

Py(v) == [t |-> "num", v |-> v, np |-> FALSE]
Np(v) == [t |-> "num", v |-> v, np |-> TRUE]
NaN == [t |-> "nan", v |-> 0, np |-> TRUE]
Inf(s) == [t |-> "inf", v |-> s, np |-> TRUE]
Raise(e) == [t |-> e, v |-> 0, np |-> FALSE]

IsErr(a) == a.t \in Errors
IsNum(a) == a.t = "num"
IsNaN(a) == a.t = "nan"
IsInf(a) == a.t = "inf"
IsZero(a) == a.t = "num" /\ a.v = 0
\* np.isfinite
IsFinite(a) == a.t = "num"
Sgn(v) == IF v > 0 THEN 1 ELSE IF v < 0 THEN -1 ELSE 0
Abs(v) == IF v < 0 THEN -v ELSE v
\* the sign of a num or an inf
SignOf(a) == Sgn(a.v)
\* a numpy scalar with the value of a
AsNp(a) == IF IsErr(a) THEN a ELSE [a EXCEPT !.np = TRUE]
\* the result of an operation on a and b is a numpy scalar when either is
Mixed(a, b, r) == [r EXCEPT !.np = a.np \/ b.np]

\* round-to-nearest integer division, d > 0
RDivPos(n, d) == (n + d \div 2) \div d
RDiv(n, d) ==
    IF d < 0 THEN (IF n >= 0 THEN -RDivPos(n, -d) ELSE RDivPos(-n, -d))
    ELSE (IF n >= 0 THEN RDivPos(n, d) ELSE -RDivPos(-n, d))
MulFix(a, b) == RDiv(a * b, Scale)
DivFix(a, b) == RDiv(a * Scale, b)

FNeg(a) ==
    IF IsErr(a) \/ IsNaN(a) THEN a ELSE [a EXCEPT !.v = -a.v]

FAdd(a, b) ==
    IF IsErr(a) THEN a
    ELSE IF IsErr(b) THEN b
    ELSE IF IsNaN(a) \/ IsNaN(b) THEN NaN
    ELSE IF IsInf(a) /\ IsInf(b) THEN (IF a.v = b.v THEN a ELSE NaN)
    ELSE IF IsInf(a) THEN a
    ELSE IF IsInf(b) THEN b
    ELSE Mixed(a, b, Py(a.v + b.v))

FSub(a, b) == FAdd(a, FNeg(b))

FMul(a, b) ==
    IF IsErr(a) THEN a
    ELSE IF IsErr(b) THEN b
    ELSE IF IsNaN(a) \/ IsNaN(b) THEN NaN
    ELSE IF IsInf(a) \/ IsInf(b)
         THEN (IF IsZero(a) \/ IsZero(b) THEN NaN ELSE Inf(SignOf(a) * SignOf(b)))
    ELSE Mixed(a, b, Py(MulFix(a.v, b.v)))

\* a / b: two Python floats raise on a zero divisor, numpy follows IEEE 754
FDiv(a, b) ==
    IF IsErr(a) THEN a
    ELSE IF IsErr(b) THEN b
    ELSE IF IsZero(b) /\ ~a.np /\ ~b.np THEN Raise("ZeroDivisionError")
    ELSE IF IsNaN(a) \/ IsNaN(b) THEN NaN
    ELSE IF IsZero(b) THEN (IF IsZero(a) THEN NaN ELSE Inf(SignOf(a)))
    ELSE IF IsInf(a) THEN (IF IsInf(b) THEN NaN ELSE Inf(SignOf(a) * SignOf(b)))
    ELSE IF IsInf(b) THEN Mixed(a, b, Py(0))
    ELSE Mixed(a, b, Py(DivFix(a.v, b.v)))

\* a < b and a > b: any comparison with nan is False
FLt(a, b) ==
    IF IsNaN(a) \/ IsNaN(b) THEN FALSE
    ELSE IF IsInf(a) THEN a.v < 0 /\ ~(IsInf(b) /\ b.v < 0)
    ELSE IF IsInf(b) THEN b.v > 0
    ELSE a.v < b.v
FGt(a, b) == FLt(b, a)

\* abs(a)
FAbs(a) ==
    IF IsErr(a) \/ IsNaN(a) THEN a ELSE [a EXCEPT !.v = Abs(a.v)]

\* a == b as Python evaluates it (nan differs from everything)
FEq(a, b) ==
    /\ ~IsNaN(a)
    /\ ~IsNaN(b)
    /\ a.t = b.t
    /\ a.v = b.v

\* ------------------------------------------------------------------------
\* Elementary functions on fixed-point integers

RECURSIVE ISqrtIter(_, _, _)
\* the largest r in lo..hi with r * r <= n
ISqrtIter(n, lo, hi) ==
    IF lo >= hi THEN lo
    ELSE LET mid == (lo + hi + 1) \div 2
         IN IF mid * mid <= n THEN ISqrtIter(n, mid, hi)
            ELSE ISqrtIter(n, lo, mid - 1)
\* sqrt of a fixed-point v >= 0, rounded to nearest
SqrtFix(v) ==
    LET n == v * Scale
        r == ISqrtIter(n, 0, 46340)
    IN IF (r + 1) * (r + 1) - n < n - r * r THEN r + 1 ELSE r

\* e^k for k = 0..6, in fixed point
ExpInt == <<1000, 2718, 7389, 20086, 54598, 148413, 403429>>
RECURSIVE ExpSeries(_, _, _, _)
\* the Taylor series of e^f from term number n on, 0 <= f < 1
ExpSeries(f, term, n, acc) ==
    IF term = 0 \/ n > 12 THEN acc
    ELSE LET next == RDiv(term * f, Scale * n)
         IN ExpSeries(f, next, n + 1, acc + next)
\* e^v for a fixed-point 0 <= v < 7
ExpPos(v) ==
    LET k == v \div Scale
        f == v % Scale
    IN MulFix(ExpInt[k + 1], ExpSeries(f, Scale, 1, Scale))
\* e^v for a fixed-point v < 7; e^v rounds to 0 below -7.6
ExpFix(v) ==
    IF v >= 0 THEN ExpPos(v)
    ELSE IF v <= -7600 THEN 0
    ELSE IF v <= -7000 THEN 1
    ELSE RDiv(Scale * Scale, ExpPos(-v))

RECURSIVE LnIter(_, _, _)
\* the largest y in lo..hi with e^y <= x
LnIter(x, lo, hi) ==
    IF lo >= hi THEN lo
    ELSE LET mid == (lo + hi + 1) \div 2
         IN IF ExpFix(mid) <= x THEN LnIter(x, mid, hi)
            ELSE LnIter(x, lo, mid - 1)
\* ln of a fixed-point x > 0
LnFix(x) ==
    LET y == LnIter(x, -7000, 6999)
    IN IF y < 6999 /\ ExpFix(y + 1) - x < x - ExpFix(y) THEN y + 1 ELSE y

RECURSIVE IntPow(_, _)
\* x^k for a natural k, by repeated multiplication
IntPow(x, k) == IF k = 0 THEN Scale ELSE MulFix(IntPow(x, k - 1), x)
\* x^y for fixed-point x > 0: exact products for a small natural y
PowFix(x, y) ==
    IF y % Scale = 0 /\ y >= 0 /\ y <= 4 * Scale THEN IntPow(x, y \div Scale)
    ELSE IF y % Scale = 0 /\ y < 0 /\ y >= -4 * Scale
         THEN DivFix(Scale, IntPow(x, (-y) \div Scale))
    ELSE ExpFix(MulFix(y, LnFix(x)))

\* erf of a fixed-point x >= 0 (Abramowitz and Stegun 7.1.26)
ErfPos(x) ==
    LET t == DivFix(Scale, Scale + RDiv(x * 3276, 10000))
        t2 == MulFix(t, t)
        t3 == MulFix(t2, t)
        t4 == MulFix(t3, t)
        t5 == MulFix(t4, t)
        poly == RDiv(254830 * t - 284497 * t2 + 1421414 * t3
                     - 1453152 * t4 + 1061405 * t5, 1000000)
    IN IF x = 0 THEN 0
       ELSE IF x >= 3300 THEN Scale
       ELSE Scale - MulFix(poly, ExpFix(-MulFix(x, x)))
ErfFix(x) == IF x < 0 THEN -ErfPos(-x) ELSE ErfPos(x)

\* W0(x), the principal branch of the Lambert W function, -1/e <= x <= 0:
\* the w in -1..0 with w * e^w nearest below x
RECURSIVE LambertIter(_, _, _)
LambertIter(v, lo, hi) ==
    IF lo >= hi THEN lo
    ELSE LET mid == (lo + hi + 1) \div 2
         IN IF MulFix(mid, ExpFix(mid)) <= v THEN LambertIter(v, mid, hi)
            ELSE LambertIter(v, lo, mid - 1)
LambertFix(v) == LambertIter(v, -Scale, 0)

\* Gamma(1 + f) for 0 <= f <= 1 (Abramowitz and Stegun 6.1.35)
Gamma1p(f) ==
    LET f2 == MulFix(f, f)
        f3 == MulFix(f2, f)
        f4 == MulFix(f3, f)
        f5 == MulFix(f4, f)
    IN Scale + RDiv(-5749 * f + 9512 * f2 - 6999 * f3 + 4246 * f4 - 1011 * f5,
                    10000)
RECURSIVE GammaFix(_)
\* Gamma(a) for a fixed-point a > 0
GammaFix(a) ==
    IF a < Scale THEN DivFix(Gamma1p(a), a)
    ELSE IF a <= 2 * Scale THEN Gamma1p(a - Scale)
    ELSE MulFix(a - Scale, GammaFix(a - Scale))

RECURSIVE GammaSeries(_, _, _, _, _)
\* sum over n of x^n / ((a+1)...(a+n)), from term number n on
GammaSeries(a, xx, term, n, acc) ==
    IF term = 0 \/ n > 40 THEN acc
    ELSE LET next == RDiv(term * xx, a + n * Scale)
         IN GammaSeries(a, xx, next, n + 1, acc + next)
\* the regularized upper incomplete gamma function Q(a, x), a > 0, x >= 0
GammaQFix(a, xx) ==
    IF xx = 0 THEN Scale
    ELSE LET lead == DivFix(MulFix(PowFix(xx, a), ExpFix(-xx)),
                            MulFix(a, GammaFix(a)))
             p == MulFix(lead, GammaSeries(a, xx, Scale, 1, Scale))
         IN IF p >= Scale THEN 0 ELSE Scale - p

\* ------------------------------------------------------------------------
\* numpy and scipy functions on float values

\* np.sqrt
FSqrt(a) ==
    IF IsErr(a) \/ IsNaN(a) THEN a
    ELSE IF IsInf(a) THEN (IF a.v > 0 THEN a ELSE NaN)
    ELSE IF a.v < 0 THEN NaN
    ELSE Np(SqrtFix(a.v))

\* np.exp
FExp(a) ==
    IF IsErr(a) \/ IsNaN(a) THEN a
    ELSE IF IsInf(a) THEN (IF a.v > 0 THEN a ELSE Np(0))
    ELSE Np(ExpFix(a.v))

\* np.log: log(0) is -inf, the log of a negative number is nan
FLog(a) ==
    IF IsErr(a) \/ IsNaN(a) THEN a
    ELSE IF IsInf(a) THEN (IF a.v > 0 THEN a ELSE NaN)
    ELSE IF a.v = 0 THEN Inf(-1)
    ELSE IF a.v < 0 THEN NaN
    ELSE Np(LnFix(a.v))

\* scipy.special.erf
FErf(a) ==
    IF IsErr(a) \/ IsNaN(a) THEN a
    ELSE IF IsInf(a) THEN Np(a.v * Scale)
    ELSE Np(ErfFix(a.v))

\* a ** b.  0.0 to a negative power raises for two Python floats and is inf
\* for numpy; the power of a negative base is taken for whole exponents only
\* (numpy gives nan otherwise).
FPow(a, b) ==
    IF IsErr(a) THEN a
    ELSE IF IsErr(b) THEN b
    ELSE IF IsZero(b) THEN Mixed(a, b, Py(Scale))
    ELSE IF IsNaN(a) \/ IsNaN(b) THEN NaN
    ELSE IF IsInf(b)
         THEN (IF IsInf(a) \/ Abs(a.v) > Scale
               THEN (IF b.v > 0 THEN Inf(1) ELSE Mixed(a, b, Py(0)))
               ELSE IF Abs(a.v) = Scale THEN Mixed(a, b, Py(Scale))
               ELSE (IF b.v > 0 THEN Mixed(a, b, Py(0)) ELSE Inf(1)))
    ELSE IF IsInf(a) THEN (IF b.v > 0 THEN Inf(1) ELSE Mixed(a, b, Py(0)))
    ELSE IF a.v = 0
         THEN (IF b.v > 0 THEN Mixed(a, b, Py(0))
               ELSE IF ~a.np /\ ~b.np THEN Raise("ZeroDivisionError")
               ELSE Inf(1))
    ELSE IF a.v < 0
         THEN (IF b.v % Scale = 0
               THEN Mixed(a, b, Py((IF (b.v \div Scale) % 2 = 0 THEN 1 ELSE -1)
                                   * PowFix(-a.v, b.v)))
               ELSE NaN)
    ELSE Mixed(a, b, Py(PowFix(a.v, b.v)))

\* scipy.special.gamma
FGamma(a) ==
    IF IsErr(a) \/ IsNaN(a) THEN a
    ELSE IF IsInf(a) THEN (IF a.v > 0 THEN a ELSE NaN)
    ELSE IF a.v = 0 THEN Inf(1)
    ELSE IF a.v < 0 THEN NaN
    ELSE Np(GammaFix(a.v))

\* scipy.special.gammaincc: nan outside a > 0, x >= 0
FGammaincc(a, xx) ==
    IF IsErr(a) THEN a
    ELSE IF IsErr(xx) THEN xx
    ELSE IF IsNaN(a) \/ IsNaN(xx) \/ IsInf(a) THEN NaN
    ELSE IF a.v <= 0 THEN NaN
    ELSE IF IsInf(xx) THEN (IF xx.v > 0 THEN Np(0) ELSE NaN)
    ELSE IF xx.v < 0 THEN NaN
    ELSE Np(GammaQFix(a.v, xx.v))

\* np.real(scipy.special.lambertw(a)) on the principal branch; below -1/e
\* the branch is complex and is outside what is modelled
FLambertw(a) ==
    IF IsErr(a) \/ IsNaN(a) THEN a
    ELSE IF IsInf(a) THEN (IF a.v > 0 THEN a ELSE NaN)
    ELSE IF a.v > 0 \/ a.v < -368 THEN NaN
    ELSE Np(LambertFix(a.v))

\* number of nodes of the quadrature rule
QuadPanels == 8
\* the nodes of the rule on [0, b]: interior points, the midpoints of the panels
QuadNodes(b) ==
    [i \in 1..QuadPanels |->
        FDiv(FMul(b, Np((2 * i - 1) * Scale)), Np(2 * QuadPanels * Scale))]
RECURSIVE QuadSum(_, _, _)
\* the sum of vals[i..]
QuadSum(vals, i, acc) ==
    IF i > Len(vals) THEN acc ELSE QuadSum(vals, i + 1, FAdd(acc, vals[i]))
\* scipy.integrate.quad(f, 0, b)[0], vals being f at the nodes of [0, b]
Quad(vals, b) ==
    FMul(QuadSum(vals, 1, Np(0)), FDiv(AsNp(b), Np(QuadPanels * Scale)))

\* the exception an expression over these values raises, if any
FirstErr(vals) ==
    IF \E i \in 1..Len(vals) : IsErr(vals[i])
    THEN vals[CHOOSE i \in 1..Len(vals) :
                  IsErr(vals[i]) /\ \A j \in 1..(i - 1) : ~IsErr(vals[j])]
    ELSE Py(0)

\* ------------------------------------------------------------------------
\* Inputs: the Model m, the constants, the module-level names

\* np.pi
Pi == 3142
\* longest depth grid
MaxN == 3

\* a name that has no binding (a local not yet assigned, a global never defined)
Unbound == [t |-> "unbound", v |-> 0, np |-> FALSE]
IsBound(a) == a.t # "unbound"
\* reading a name: NameError when it has no binding
Load(a) == IF IsBound(a) THEN a ELSE Raise("NameError")

\* a Model scalar: a Python float or a numpy scalar
Scalar(kind, v) == IF kind = "numpy" THEN Np(v) ELSE Py(v)

\* depth grids from the bed (0) to the surface (H), N points
Grid(H, N) == [i \in 1..N |-> Np(((i - 1) * H) \div (N - 1))]
\* pressure-melting point along a grid: slope * (H - z), slope <= 0
PmpOf(z, H, slope) == [i \in 1..Len(z) |-> Np(MulFix(slope, H - z[i].v))]

HVals == {2000}
TsVals == {-3000, -1500}
AdotVals == {0, 1000, 2000}
QgeoVals == {1000, 8000}
EpsVals == {500, 3000}
PmpSlopes == {-100}
Kinds == {"python", "numpy"}

Models ==
    { [z |-> Grid(H, N), Ts |-> Scalar(kind, Ts), H |-> Scalar(kind, H),
       adot |-> Scalar(kind, adot), qgeo |-> Scalar(kind, qgeo),
       pmp |-> PmpOf(Grid(H, N), H, slope), eps_xy |-> Scalar(kind, eps)] :
      <<H, N, Ts, adot, qgeo, slope, eps, kind>> \in
          HVals \X (2..MaxN) \X TsVals \X AdotVals \X QgeoVals
                \X PmpSlopes \X EpsVals \X Kinds }

\* the default constants instance shared by every call (Python floats)
Constants ==
    [k |-> Py(2000), rho |-> Py(1000), Cp |-> Py(1000), L |-> Py(1000),
     g |-> Py(1000), n |-> Py(3000), spy |-> Py(1000)]

\* bindings the module-level name H may have: none, or a float from a
\* star-import
GlobalHVals == {Unbound, Py(2000), Py(4000)}

\* the locals of a call before any assignment
NoLocals ==
    [alpha |-> Unbound, q2 |-> Unbound, Tb_grad |-> Unbound, TTb |-> <<>>,
     dTs |-> Unbound, T |-> <<>>, M |-> Unbound,
     gamma |-> Unbound, tau_dx |-> Unbound, A |-> Unbound,
     qgeo_s |-> Unbound, qgeo |-> Unbound, lamb |-> Unbound, phi |-> Unbound,
     term2 |-> <<>>,
     T_bulk |-> Unbound, k |-> Unbound, Cp |-> Unbound, S |-> Unbound,
     dT |-> Unbound, Br |-> Unbound, Pe |-> Unbound, LAM |-> Unbound,
     eps_bar |-> Unbound, hbar |-> Unbound, i |-> 0]
\* the keyword arguments at their defaults
NoArgs ==
    [f |-> "none", melt |-> TRUE, gamma |-> Py(1397), gamma_plus |-> TRUE,
     dHdx |-> Py(0), tau_dx |-> Py(0), Tb |-> Py(0), lam |-> Py(0)]
NoResult == [kind |-> "none", T |-> <<>>, err |-> "none"]
Returned(T) == [kind |-> "returned", T |-> T, err |-> "none"]
Raised(e) == [kind |-> "raised", T |-> <<>>, err |-> e.t]

VARIABLES
    m,        \* the Model passed to every call
    const,    \* the constants instance passed to every call
    H_global, \* the binding of the module-level name H
    pc,       \* position in the running call, "idle" between calls
    args,     \* the running (or last) call's function and keyword arguments
    loc,      \* the running call's local variables
    ret,      \* how the last call ended: its returned array or its exception
    hist,     \* of the running call: Robin's first-pass profile and number
              \* of re-solves, Meyer's profile before the clamp
    first     \* the first call made: its arguments, how it ended, and how
              \* many calls ended after it

vars == <<m, const, H_global, pc, args, loc, ret, hist, first>>

NoHist == [firstT |-> <<>>, resolves |-> 0, rawT |-> <<>>]

NoFirst == [args |-> NoArgs, ret |-> NoResult, later |-> 0]

InitOver(models) ==
    /\ m \in models
    /\ const = Constants
    /\ H_global \in GlobalHVals
    /\ pc = "idle"
    /\ args = NoArgs
    /\ loc = NoLocals
    /\ ret = NoResult
    /\ hist = NoHist
    /\ first = NoFirst

Init == InitOver(Models)

\* a call: fresh locals, the inputs untouched
Call(a, start) ==
    /\ pc = "idle"
    /\ pc' = start
    /\ args' = a
    /\ loc' = NoLocals
    /\ ret' = NoResult
    /\ hist' = NoHist
    /\ UNCHANGED <<m, const, H_global>>

\* an exception leaves the call: no array is returned
Throw(e) ==
    /\ pc' = "idle"
    /\ ret' = Raised(e)
    /\ UNCHANGED <<m, const, H_global, args, loc, hist>>

\* return T
Return ==
    /\ pc' = "idle"
    /\ ret' = Returned(loc.T)
    /\ UNCHANGED <<m, const, H_global, args, loc, hist>>

\* ------------------------------------------------------------------------
\* Robin_T

CallRobin == \E melt \in BOOLEAN : Call([NoArgs EXCEPT !.f = "Robin", !.melt = melt], "robin_first")

\* f = lambda z : np.exp(-(z**2.)*q2)
Robin_f(z, q2) == FExp(FMul(FNeg(FPow(z, Py(2 * Scale))), q2))
\* Tb_grad*np.array([quad(f,0,zi)[0] for zi in m.z])
\* quad(f,0,zi)[0]
Robin_quad(zi, q2) ==
    LET nodes == QuadNodes(zi)
    IN Quad([i \in 1..QuadPanels |-> Robin_f(nodes[i], q2)], zi)
Robin_TTbOver(zs, Tb_grad, q2) ==
    [i \in 1..Len(zs) |-> FMul(Tb_grad, Robin_quad(zs[i], q2))]
\* (mutant) the comprehension runs over m.z[1:]
Robin_TTbDropFirst(Tb_grad, q2) == Robin_TTbOver(Tail(m.z), Tb_grad, q2)
Robin_TTb(Tb_grad, q2) == Robin_TTbOver(m.z, Tb_grad, q2)
\* T = TTb + dTs
Robin_Shift(TTb, dTs) == [i \in 1..Len(TTb) |-> FAdd(TTb[i], dTs)]

\* the first pass.  Every value of a step is bound once, by \E over a
\* one-element set, and then used.
RobinFirstPass ==
    /\ pc = "robin_first"
    /\ \E alpha \in {FDiv(const.k, FMul(const.rho, const.Cp))} :
       \E q2 \in {FDiv(m.adot, FMul(FMul(Py(2 * Scale), alpha), m.H))} :
       \E Tb_grad \in {FDiv(FNeg(m.qgeo), const.k)} :
       \E TTb \in {Robin_TTb(Tb_grad, q2)} :
       \E dTs \in {FSub(m.Ts, TTb[Len(TTb)])} :
       \E T \in {Robin_Shift(TTb, dTs)} :
       \E e \in {FirstErr(<<alpha, q2, Tb_grad>>)} :
          IF IsErr(e) THEN Throw(e)
          ELSE /\ loc' = [loc EXCEPT !.alpha = alpha, !.q2 = q2,
                              !.Tb_grad = Tb_grad, !.TTb = TTb, !.dTs = dTs,
                              !.T = T]
               /\ hist' = [hist EXCEPT !.firstT = T]
               /\ pc' = "robin_test"
               /\ UNCHANGED <<m, const, H_global, args, ret>>

\* (mutant) the melt flag is not consulted
RobinMeltsAnyFlag == FGt(loc.T[1], m.pmp[1])
\* if melt and T[0] > m.pmp[0]
RobinMelts == args.melt /\ FGt(loc.T[1], m.pmp[1])

\* the basal gradient recomputed from the melting point
Robin_MeltGrad(q2, alpha) ==
    FMul(FDiv(FMul(FMul(Py(-2 * Scale), FSqrt(q2)), FSub(m.pmp[1], m.Ts)),
              FSqrt(Np(Pi))),
         FPow(FSqrt(FErf(FDiv(FMul(m.adot, m.H), FMul(Py(2 * Scale), alpha)))),
              Py(-Scale)))

\* the re-solve, then on to the return
RobinResolve ==
    /\ pc = "robin_test"
    /\ RobinMelts
    /\ \E Tb_grad \in {Robin_MeltGrad(loc.q2, loc.alpha)} :
       \E TTb \in {Robin_TTb(Tb_grad, loc.q2)} :
       \E dTs \in {FSub(m.Ts, TTb[Len(TTb)])} :
       \E T \in {Robin_Shift(TTb, dTs)} :
       \E M \in {FDiv(FMul(FAdd(Tb_grad, FDiv(m.qgeo, const.k)), const.k),
                      const.L)} :
       \E e \in {FirstErr(<<Tb_grad, M>>)} :
          IF IsErr(e) THEN Throw(e)
          ELSE /\ loc' = [loc EXCEPT !.Tb_grad = Tb_grad, !.TTb = TTb,
                              !.dTs = dTs, !.T = T, !.M = M]
               /\ hist' = [hist EXCEPT !.resolves = @ + 1]
               /\ pc' = "robin_return"
               /\ UNCHANGED <<m, const, H_global, args, ret>>

RobinReturn ==
    /\ \/ pc = "robin_test" /\ ~RobinMelts
       \/ pc = "robin_return"
    /\ Return

\* ------------------------------------------------------------------------
\* Rezvan_T

\* T_ratefactor=-10.
T_ratefactor == -10000

\* rate_factor(np.array([T]), const)[0] of ice_properties: a positive rate
\* factor that grows with temperature
RateFactor(T) == FExp(FDiv(AsNp(T), Py(10 * Scale)))

\* (gamma_plus, gamma) and (dHdx, tau_dx) of the calls made
RezvanGammas == {<<TRUE, 1397>>, <<FALSE, 1397>>, <<FALSE, -1000>>}
RezvanStresses == {<<0, 0>>, <<500, 0>>, <<0, 1000>>, <<500, 1000>>}

CallRezvan ==
    \E g \in RezvanGammas, st \in RezvanStresses :
        Call([NoArgs EXCEPT !.f = "Rezvan", !.gamma_plus = g[1],
                     !.gamma = Py(g[2]), !.dHdx = Py(st[1]),
                     !.tau_dx = Py(st[2])], "rezvan_gamma")

\* gamma = 1.39+.044*np.log(Pe)
Rezvan_GammaPlus(Pe) == FAdd(Py(1390), FMul(Py(44), FLog(Pe)))

\* the thermal diffusivity and the exponent gamma
RezvanGamma ==
    /\ pc = "rezvan_gamma"
    /\ \E alpha \in {FDiv(const.k, FMul(const.rho, const.Cp))} :
       \E gamma \in {IF args.gamma_plus
                     THEN Rezvan_GammaPlus(FDiv(FMul(m.adot, m.H), alpha))
                     ELSE args.gamma} :
       \E e \in {FirstErr(<<alpha, gamma>>)} :
          IF IsErr(e) THEN Throw(e)
          ELSE /\ loc' = [loc EXCEPT !.alpha = alpha, !.gamma = gamma,
                              !.tau_dx = args.tau_dx]
               /\ pc' = "rezvan_stress"
               /\ UNCHANGED <<m, const, H_global, args, ret, hist>>

\* tau_dx = const.rho*const.g*H*abs(dHdx), H being the module-level name
Rezvan_SlopeStress ==
    FMul(FMul(FMul(const.rho, const.g), Load(H_global)), FAbs(args.dHdx))
\* the driving stress after "if dHdx != 0. and tau_dx == 0."
Rezvan_Stress ==
    IF ~FEq(args.dHdx, Py(0)) /\ FEq(loc.tau_dx, Py(0)) THEN Rezvan_SlopeStress
    ELSE loc.tau_dx
\* qgeo_s = (2./5.)*A*m.H*tau_dx**4.
Rezvan_qgeo_s(A, tau_dx) ==
    FMul(FMul(FMul(FDiv(Py(2 * Scale), Py(5 * Scale)), A), m.H),
         FPow(tau_dx, Py(4 * Scale)))

\* the driving stress and the strain-heating flux
RezvanStress ==
    /\ pc = "rezvan_stress"
    /\ \E tau_dx \in {Rezvan_Stress} :
       IF IsErr(tau_dx) THEN Throw(tau_dx)
       ELSE IF FEq(tau_dx, Py(0))
       THEN /\ loc' = [loc EXCEPT !.tau_dx = tau_dx]
            /\ pc' = "rezvan_profile"
            /\ UNCHANGED <<m, const, H_global, args, ret, hist>>
       ELSE \E A \in {RateFactor(Py(T_ratefactor))} :
            \E qgeo_s \in {Rezvan_qgeo_s(A, tau_dx)} :
            \E qgeo \in {FAdd(m.qgeo, qgeo_s)} :
            \E e \in {FirstErr(<<A, qgeo_s, qgeo>>)} :
               IF IsErr(e) THEN Throw(e)
               ELSE /\ loc' = [loc EXCEPT !.tau_dx = tau_dx, !.A = A,
                                   !.qgeo_s = qgeo_s, !.qgeo = qgeo]
                    /\ pc' = "rezvan_profile"
                    /\ UNCHANGED <<m, const, H_global, args, ret, hist>>

\* the upper incomplete gamma function at -phi*zz**(gamma+1):
\* gammaincc(1/(1+gamma), -phi*zz**(gamma+1))*gamma(1/(1+gamma))
Rezvan_Gamma(gamma, phi, zz) ==
    FMul(FGammaincc(FDiv(Py(Scale), FAdd(Py(Scale), gamma)),
                    FMul(FNeg(phi), FPow(zz, FAdd(gamma, Py(Scale))))),
         FGamma(FDiv(Py(Scale), FAdd(Py(Scale), gamma))))
\* qflux*(-phi)**(-1./(gamma+1.))/(const.k*(gamma+1))
Rezvan_Factor(qflux, gamma, phi) ==
    FDiv(FMul(qflux, FPow(FNeg(phi),
                          FDiv(Py(-Scale), FAdd(gamma, Py(Scale))))),
         FMul(const.k, FAdd(gamma, Py(Scale))))
\* the geothermal flux of the closed form: T = m.Ts + m.qgeo*...
Rezvan_Flux == m.qgeo
\* T = m.Ts + factor*term2
Rezvan_Profile(factor, term2) ==
    [i \in 1..Len(term2) |-> FAdd(m.Ts, FMul(factor, term2[i]))]

\* the closed-form profile
RezvanProfile ==
    /\ pc = "rezvan_profile"
    /\ \E lamb \in {FDiv(m.adot, FMul(loc.alpha, FPow(m.H, loc.gamma)))} :
       \E phi \in {FDiv(FNeg(lamb), FAdd(loc.gamma, Py(Scale)))} :
       \E G1 \in {[i \in 1..Len(m.z) |-> Rezvan_Gamma(loc.gamma, phi, m.z[i])]} :
       \E G2 \in {Rezvan_Gamma(loc.gamma, phi, m.H)} :
       \E term2 \in {[i \in 1..Len(G1) |-> AsNp(FSub(G1[i], G2))]} :
       \E factor \in {Rezvan_Factor(Rezvan_Flux, loc.gamma, phi)} :
       \E e \in {FirstErr(<<lamb, phi>> \o G1 \o <<G2, factor>>)} :
          IF IsErr(e) THEN Throw(e)
          ELSE /\ loc' = [loc EXCEPT !.lamb = lamb, !.phi = phi,
                              !.term2 = term2,
                              !.T = Rezvan_Profile(factor, term2)]
               /\ pc' = "rezvan_return"
               /\ UNCHANGED <<m, const, H_global, args, ret, hist>>

RezvanReturn ==
    /\ pc = "rezvan_return"
    /\ Return

\* ------------------------------------------------------------------------
\* Material properties of ice_properties, at the bulk temperature

\* T_bulk = np.mean([m.Ts,m.pmp[0]])
BulkT == FDiv(FAdd(AsNp(m.Ts), m.pmp[1]), Np(2 * Scale))
\* conductivity(T, rho): positive, falling with temperature
Conductivity(T, rho) == FSub(FMul(Py(2 * Scale), rho), FMul(Py(100), T))
\* heat_capacity(T): positive, growing with temperature
HeatCapacity(T) == FAdd(Py(Scale), FMul(Py(20), T))

\* ------------------------------------------------------------------------
\* Meyer_T

\* the threshold of "if abs(Pe) < 1e-3"
PeThreshold == 1

\* the basal temperatures Tb of the calls made: the default 0., or m.Ts
MeyerLams == {0, 500}
CallMeyer ==
    \E Tb \in {Py(0), [m.Ts EXCEPT !.np = FALSE]}, lam \in MeyerLams :
        Call([NoArgs EXCEPT !.f = "Meyer", !.Tb = Tb, !.lam = Py(lam)],
             "meyer_numbers")

\* A**(-1./const.n)
Meyer_Ainv(A) == FPow(A, FDiv(Py(-Scale), const.n))
\* S = 2.*A**(-1./const.n)*(eps)**((const.n+1.)/const.n)
StrainHeating(A, eps) ==
    FMul(FMul(Py(2 * Scale), Meyer_Ainv(A)),
         FPow(eps, FDiv(FAdd(const.n, Py(Scale)), const.n)))
\* const.n/(const.n+1.)
Meyer_Expo == FDiv(const.n, FAdd(const.n, Py(Scale)))
\* (k*dT/(A**(-1/const.n)*m.H**(2.)))**(const.n/(const.n+1.))
Meyer_CriticalStrain(k, dT, A) ==
    FPow(FDiv(FMul(k, dT), FMul(Meyer_Ainv(A), FPow(m.H, Py(2 * Scale)))),
         Meyer_Expo)

\* the bulk properties, the Brinkman and the Peclet number
MeyerNumbers ==
    /\ pc = "meyer_numbers"
    /\ \E T_bulk \in {BulkT} :
       \E k \in {Conductivity(T_bulk, const.rho)} :
       \E Cp \in {HeatCapacity(T_bulk)} :
       \E A \in {RateFactor(T_bulk)} :
       \E S \in {StrainHeating(A, m.eps_xy)} :
       \E dT \in {FSub(args.Tb, m.Ts)} :
       \E Br \in {FDiv(FMul(S, FPow(m.H, Py(2 * Scale))), FMul(k, dT))} :
       \E Pe \in {FDiv(FMul(FMul(FMul(const.rho, Cp), m.adot), m.H), k)} :
       \E LAM \in {FDiv(FMul(args.lam, FPow(m.H, Py(2 * Scale))),
                        FMul(k, dT))} :
       \E e \in {FirstErr(<<T_bulk, k, Cp, A, S, dT, Br, Pe, LAM>>)} :
          IF IsErr(e) THEN Throw(e)
          ELSE /\ loc' = [loc EXCEPT !.T_bulk = T_bulk, !.k = k, !.Cp = Cp,
                              !.A = A, !.S = S, !.dT = dT, !.Br = Br,
                              !.Pe = Pe, !.LAM = LAM]
               /\ pc' = "meyer_branch"
               /\ UNCHANGED <<m, const, H_global, args, ret, hist>>

\* if abs(Pe) < 1e-3
Meyer_DiffusionOnly == FLt(FAbs(loc.Pe), Py(PeThreshold))

\* hbar = 1.-np.sqrt(2./Br) above the critical strain, else 0.
Meyer_hbarDiffusion(eps_bar) ==
    IF FGt(m.eps_xy, eps_bar)
    THEN FSub(Py(Scale), FSqrt(FDiv(Py(2 * Scale), loc.Br)))
    ELSE Py(0)
\* m.Ts + dT*(Br/2.)*(1.-((zz/m.H)**2.)-2.*hbar*(1.-zz/m.H))
Meyer_TDiffusion(hbar, zz) ==
    FAdd(m.Ts,
         FMul(FMul(loc.dT, FDiv(loc.Br, Py(2 * Scale))),
              FSub(FSub(Py(Scale), FPow(FDiv(zz, m.H), Py(2 * Scale))),
                   FMul(FMul(Py(2 * Scale), hbar),
                        FSub(Py(Scale), FDiv(zz, m.H))))))

\* the diffusion-only profile, before the clamp
MeyerDiffusion ==
    /\ pc = "meyer_branch"
    /\ Meyer_DiffusionOnly
    /\ \E eps_bar \in {Meyer_CriticalStrain(loc.k, loc.dT, loc.A)} :
       \E hbar \in {Meyer_hbarDiffusion(eps_bar)} :
       \E T \in {[i \in 1..Len(m.z) |-> AsNp(Meyer_TDiffusion(hbar, m.z[i]))]} :
       \E e \in {FirstErr(<<eps_bar, hbar>>)} :
          IF IsErr(e) THEN Throw(e)
          ELSE /\ loc' = [loc EXCEPT !.eps_bar = eps_bar, !.hbar = hbar,
                              !.T = T]
               /\ hist' = [hist EXCEPT !.rawT = T]
               /\ pc' = "meyer_clamp_diffusion"
               /\ UNCHANGED <<m, const, H_global, args, ret>>

\* T[zs/thick<hbar] = 0.
Clamp(T, zs, thick, hbar) ==
    [i \in 1..Len(T) |->
        IF FLt(FDiv(zs[i], thick), hbar) THEN Np(0) ELSE T[i]]

\* the thickness that line 195 divides the depths by: the module-level H
Meyer_ClampThicknessDiffusion == Load(H_global)

\* T[m.z/H<hbar] = 0.
MeyerClampDiffusion ==
    /\ pc = "meyer_clamp_diffusion"
    /\ \E thick \in {Meyer_ClampThicknessDiffusion} :
          IF IsErr(thick) THEN Throw(thick)
          ELSE /\ loc' = [loc EXCEPT !.T = Clamp(loc.T, m.z, thick, loc.hbar)]
               /\ pc' = "meyer_return"
               /\ UNCHANGED <<m, const, H_global, args, ret, hist>>

\* Br-LAM
Meyer_BL == FSub(loc.Br, loc.LAM)
\* (((0.5*Pe**2.)/(Pe-1.+np.exp(-Pe))+0.5*LAM)**(const.n/(const.n+1.)))
Meyer_eps_1 ==
    FPow(FAdd(FDiv(FMul(Py(500), FPow(loc.Pe, Py(2 * Scale))),
                   FAdd(FSub(loc.Pe, Py(Scale)), FExp(FNeg(loc.Pe)))),
              FMul(Py(500), loc.LAM)),
         Meyer_Expo)
\* h_1 = 1.-(Pe/(Br-LAM))
Meyer_h_1 == FSub(Py(Scale), FDiv(loc.Pe, Meyer_BL))
\* h_2 = -(1./Pe)*(1.+np.real(lambertw(-np.exp(-(Pe**2./(Br-LAM))-1.))))
Meyer_h_2 ==
    FMul(FNeg(FDiv(Py(Scale), loc.Pe)),
         FAdd(Py(Scale),
              FLambertw(FNeg(FExp(FSub(FNeg(FDiv(FPow(loc.Pe, Py(2 * Scale)),
                                                  Meyer_BL)),
                                        Py(Scale)))))))
Meyer_hbarAdvection(eps_bar) ==
    IF FGt(m.eps_xy, eps_bar) THEN FAdd(Meyer_h_1, Meyer_h_2) ELSE Py(0)
\* m.Ts + dT*((Br-LAM)/Pe)*(1.-zz/m.H+(1./Pe)*np.exp(Pe*(hbar-1.))
\*                           -(1./Pe)*np.exp(Pe*((hbar-zz/m.H))))
Meyer_TAdvection(hbar, zz) ==
    FAdd(m.Ts,
         FMul(FMul(loc.dT, FDiv(Meyer_BL, loc.Pe)),
              FSub(FAdd(FSub(Py(Scale), FDiv(zz, m.H)),
                        FMul(FDiv(Py(Scale), loc.Pe),
                             FExp(FMul(loc.Pe, FSub(hbar, Py(Scale)))))),
                   FMul(FDiv(Py(Scale), loc.Pe),
                        FExp(FMul(loc.Pe, FSub(hbar, FDiv(zz, m.H))))))))

\* the advection-diffusion profile, before the clamp
MeyerAdvection ==
    /\ pc = "meyer_branch"
    /\ ~Meyer_DiffusionOnly
    /\ \E eps_bar \in {FMul(Meyer_eps_1,
                            Meyer_CriticalStrain(loc.k, loc.dT, loc.A))} :
       \E hbar \in {Meyer_hbarAdvection(eps_bar)} :
       \E T \in {[i \in 1..Len(m.z) |-> AsNp(Meyer_TAdvection(hbar, m.z[i]))]} :
       \E e \in {FirstErr(<<eps_bar, hbar>>)} :
          IF IsErr(e) THEN Throw(e)
          ELSE /\ loc' = [loc EXCEPT !.eps_bar = eps_bar, !.hbar = hbar,
                              !.T = T]
               /\ hist' = [hist EXCEPT !.rawT = T]
               /\ pc' = "meyer_clamp_advection"
               /\ UNCHANGED <<m, const, H_global, args, ret>>

\* T[m.z/m.H<hbar] = 0.
MeyerClampAdvection ==
    /\ pc = "meyer_clamp_advection"
    /\ loc' = [loc EXCEPT !.T = Clamp(loc.T, m.z, m.H, loc.hbar)]
    /\ pc' = "meyer_return"
    /\ UNCHANGED <<m, const, H_global, args, ret, hist>>

MeyerReturn ==
    /\ pc = "meyer_return"
    /\ Return

\* ------------------------------------------------------------------------
\* Perol_T

CallPerol == Call([NoArgs EXCEPT !.f = "Perol"], "perol_numbers")

\* an entry of np.empty_like(m.z): whatever the memory held
Garbage == [t |-> "garbage", v |-> 0, np |-> TRUE]
\* T = np.empty_like(m.z)
Perol_Alloc == [i \in 1..Len(m.z) |-> Garbage]

\* the bulk properties, the Peclet number, the strain heating, the array
PerolNumbers ==
    /\ pc = "perol_numbers"
    /\ \E T_bulk \in {BulkT} :
       \E k \in {Conductivity(T_bulk, const.rho)} :
       \E Cp \in {HeatCapacity(T_bulk)} :
       \E A \in {RateFactor(T_bulk)} :
       \E Pe \in {FDiv(FMul(m.adot, m.H), FDiv(k, FMul(const.rho, Cp)))} :
       \E S \in {StrainHeating(A, FDiv(m.eps_xy, Py(2 * Scale)))} :
       \E e \in {FirstErr(<<T_bulk, k, Cp, A, Pe, S>>)} :
          IF IsErr(e) THEN Throw(e)
          ELSE /\ loc' = [loc EXCEPT !.T_bulk = T_bulk, !.k = k, !.Cp = Cp,
                              !.A = A, !.Pe = Pe, !.S = S, !.T = Perol_Alloc,
                              !.i = 1]
               /\ pc' = "perol_loop"
               /\ UNCHANGED <<m, const, H_global, args, ret, hist>>

\* (1.-np.exp(ee))/(2.*lam*np.sqrt(1.-lam))
Perol_Integrand(ee, lam) ==
    FDiv(FSub(Py(Scale), FExp(ee)),
         FMul(FMul(Py(2 * Scale), lam), FSqrt(FSub(Py(Scale), lam))))
\* f1: the exponent is -lam*Pe*zz**2./(2.*m.H**2.)
Perol_f1(lam, zz) ==
    Perol_Integrand(FDiv(FMul(FMul(FNeg(lam), loc.Pe), FPow(zz, Py(2 * Scale))),
                         FMul(Py(2 * Scale), FPow(m.H, Py(2 * Scale)))),
                    lam)
\* (mutant) f2 with the exponent -lam*Pe
Perol_f2NoHalf(lam) == Perol_Integrand(FMul(FNeg(lam), loc.Pe), lam)
\* f2: the exponent is -lam*Pe/2.
Perol_f2(lam) ==
    Perol_Integrand(FDiv(FMul(FNeg(lam), loc.Pe), Py(2 * Scale)), lam)
\* quad(f1,0.,1.)[0]
Perol_quad_f1(zz) ==
    LET nodes == QuadNodes(Py(Scale))
    IN Quad([i \in 1..QuadPanels |-> Perol_f1(nodes[i], zz)], Py(Scale))
\* quad(f2,0.,1.)[0]
Perol_quad_f2 ==
    LET nodes == QuadNodes(Py(Scale))
    IN Quad([i \in 1..QuadPanels |-> Perol_f2(nodes[i])], Py(Scale))
\* erf(np.sqrt(Pe/2.)*(zz/m.H))/erf(np.sqrt(Pe/2.))
Perol_ErfRatio(zz) ==
    FDiv(FErf(FMul(FSqrt(FDiv(loc.Pe, Py(2 * Scale))), FDiv(zz, m.H))),
         FErf(FSqrt(FDiv(loc.Pe, Py(2 * Scale)))))
\* the temperature at depth zz (lines 259-261)
Perol_Point(zz) ==
    FSub(FAdd(m.pmp[1],
              FDiv(FMul(FSub(m.Ts, m.pmp[1]),
                        FErf(FMul(FSqrt(FDiv(loc.Pe, Py(2 * Scale))),
                                  FDiv(zz, m.H)))),
                   FErf(FSqrt(FDiv(loc.Pe, Py(2 * Scale)))))),
         FMul(FDiv(FMul(loc.S, FPow(m.H, Py(2 * Scale))),
                   FMul(loc.k, loc.Pe)),
              FSub(Perol_quad_f1(zz),
                   FMul(Perol_ErfRatio(zz), Perol_quad_f2))))

\* (mutant) T is m.z itself, not np.empty_like(m.z): the store goes to both
PerolPointInPlace ==
    /\ pc = "perol_loop"
    /\ loc.i <= Len(m.z)
    /\ \E v \in {Perol_Point(m.z[loc.i])} :
          IF IsErr(v) THEN Throw(v)
          ELSE /\ loc' = [loc EXCEPT !.T[loc.i] = AsNp(v), !.i = @ + 1]
               /\ m' = [m EXCEPT !.z[loc.i] = AsNp(v)]
               /\ UNCHANGED <<pc, const, H_global, args, ret, hist>>

\* one pass of "for i in range(len(m.z))": T[i] = ...
PerolPoint ==
    /\ pc = "perol_loop"
    /\ loc.i <= Len(m.z)
    /\ \E v \in {Perol_Point(m.z[loc.i])} :
          IF IsErr(v) THEN Throw(v)
          ELSE /\ loc' = [loc EXCEPT !.T[loc.i] = AsNp(v), !.i = @ + 1]
               /\ UNCHANGED <<pc, m, const, H_global, args, ret, hist>>

PerolReturn ==
    /\ pc = "perol_loop"
    /\ loc.i > Len(m.z)
    /\ Return

\* one step of one call; the first call is not remembered
Next ==
    \/ CallRobin /\ UNCHANGED first
    \/ RobinFirstPass /\ UNCHANGED first
    \/ RobinResolve /\ UNCHANGED first
    \/ RobinReturn /\ UNCHANGED first
    \/ CallRezvan /\ UNCHANGED first
    \/ RezvanGamma /\ UNCHANGED first
    \/ RezvanStress /\ UNCHANGED first
    \/ RezvanProfile /\ UNCHANGED first
    \/ RezvanReturn /\ UNCHANGED first
    \/ CallMeyer /\ UNCHANGED first
    \/ MeyerNumbers /\ UNCHANGED first
    \/ MeyerDiffusion /\ UNCHANGED first
    \/ MeyerClampDiffusion /\ UNCHANGED first
    \/ MeyerAdvection /\ UNCHANGED first
    \/ MeyerClampAdvection /\ UNCHANGED first
    \/ MeyerReturn /\ UNCHANGED first
    \/ CallPerol /\ UNCHANGED first
    \/ PerolNumbers /\ UNCHANGED first
    \/ PerolPoint /\ UNCHANGED first
    \/ PerolReturn /\ UNCHANGED first

Spec == Init /\ [][Next]_vars

\* ------------------------------------------------------------------------
\* Sequences of calls, the first call's outcome kept for comparison

\* most calls counted after the first
MaxLater == 1

\* the models of the sequences: one grid, one surface temperature, and so on
SeqModels ==
    {mm \in Models : Len(mm.z) = 2 /\ mm.Ts.v = -3000 /\ mm.qgeo.v = 8000
                     /\ mm.adot.v # 1000 /\ mm.eps_xy.v = 3000}

InitSeq == InitOver(SeqModels)

\* the first call to end is remembered, the later ones are counted
Remember ==
    first' = IF ret'.kind = "none" \/ ret.kind # "none" THEN first
             ELSE IF first.ret.kind = "none"
             THEN [args |-> args', ret |-> ret', later |-> 0]
             ELSE [first EXCEPT !.later = IF @ < MaxLater THEN @ + 1 ELSE @]

NextSeq ==
    \/ CallRobin /\ Remember
    \/ RobinFirstPass /\ Remember
    \/ RobinResolve /\ Remember
    \/ RobinReturn /\ Remember
    \/ CallRezvan /\ Remember
    \/ RezvanGamma /\ Remember
    \/ RezvanStress /\ Remember
    \/ RezvanProfile /\ Remember
    \/ RezvanReturn /\ Remember
    \/ CallMeyer /\ Remember
    \/ MeyerNumbers /\ Remember
    \/ MeyerDiffusion /\ Remember
    \/ MeyerClampDiffusion /\ Remember
    \/ MeyerAdvection /\ Remember
    \/ MeyerClampAdvection /\ Remember
    \/ MeyerReturn /\ Remember
    \/ CallPerol /\ Remember
    \/ PerolNumbers /\ Remember
    \/ PerolPoint /\ Remember
    \/ PerolReturn /\ Remember

SpecSeq == InitSeq /\ [][NextSeq]_vars

\* ------------------------------------------------------------------------
\* Properties

\* numerical tolerance of a comparison, in fixed-point units
Tol == 2

\* a call of f has ended, by return or by exception
Finished(f) == pc = "idle" /\ args.f = f /\ ret.kind # "none"
ReturnedBy(f) == Finished(f) /\ ret.kind = "returned"
AllFinite(T) == \A i \in 1..Len(T) : IsFinite(T[i])
Near(a, b) == IsFinite(a) /\ IsFinite(b) /\ Abs(a.v - b.v) <= Tol
\* the grid runs from the bed (z = 0) to the surface (z = H)
BedToSurface == IsZero(m.z[1]) /\ FEq(m.z[Len(m.z)], m.H)

\* C1: a call of any of the four solvers that returns, returns an array of
\* exactly as many entries as the depth grid, on every branch; entry i of
\* Robin's array is the shifted integral up to depth z[i] and entry i of
\* Perol's array is the point formula at depth z[i].
C1_OutputAligned ==
    (pc = "idle" /\ ret.kind = "returned") =>
        /\ Len(ret.T) = Len(m.z)
        /\ args.f = "Robin" =>
              \A i \in 1..Len(m.z) :
                  ret.T[i] = FAdd(FMul(loc.Tb_grad, Robin_quad(m.z[i], loc.q2)),
                                  loc.dTs)
        /\ args.f = "Perol" =>
              \A i \in 1..Len(m.z) : ret.T[i] = AsNp(Perol_Point(m.z[i]))
C1_Witness ==
    /\ ReturnedBy("Robin")
    /\ hist.resolves = 1
    /\ Len(ret.T) = 3

\* C2: after Robin's melt re-solve, with adot > 0 and a grid from the bed to
\* the surface, the basal entry of the returned profile equals the basal
\* pressure-melting point to numerical tolerance.
C2_ResolvedBaseAtMeltingPoint ==
    (/\ ReturnedBy("Robin")
     /\ hist.resolves = 1
     /\ FGt(m.adot, Py(0))
     /\ BedToSurface) => Near(ret.T[1], m.pmp[1])

\* C3: Perol called with adot = 0 returns (does not raise) a profile without
\* nan or inf: the linear interpolation between the basal pressure-melting
\* point and the surface temperature.
C3_PerolZeroPecletFallback ==
    (Finished("Perol") /\ IsZero(m.adot)) =>
        /\ ret.kind = "returned"
        /\ AllFinite(ret.T)
        /\ \A i \in 1..Len(ret.T) :
              Near(ret.T[i],
                   FAdd(m.pmp[1], FMul(FSub(m.Ts, m.pmp[1]),
                                       FDiv(m.z[i], m.H))))

\* the inputs C4 names: gamma = -1 without gamma_plus, Pe = 0 with
\* gamma_plus, Tb = Ts
RezvanDomainError ==
    /\ args.f = "Rezvan"
    /\ \/ ~args.gamma_plus /\ FEq(args.gamma, Py(-Scale))
       \/ args.gamma_plus /\ IsZero(m.adot)
MeyerDomainError == args.f = "Meyer" /\ FEq(args.Tb, m.Ts)
\* C4: a call of Rezvan_T with gamma = -1 (gamma_plus off) or with Pe = 0
\* (gamma_plus on), and a call of Meyer_T with Tb = Ts, ends with an
\* exception: no array, so no array holding nan or inf, is returned.
C4_DomainErrorsFailFast ==
    (/\ pc = "idle"
     /\ ret.kind # "none"
     /\ RezvanDomainError \/ MeyerDomainError) => ret.kind = "raised"

\* C5: a call of Meyer_T with Tb # Ts that reaches either branch returns a
\* profile whose entry i is 0 where z[i]/m.H < hbar and the branch's
\* closed-form value elsewhere.
C5_MeyerClampUsesOwnThickness ==
    (Finished("Meyer") /\ ~MeyerDomainError /\ hist.rawT # <<>>) =>
        /\ ret.kind = "returned"
        /\ ret.T = Clamp(hist.rawT, m.z, m.H, loc.hbar)

\* C6: no step of any call, in any sequence of calls, changes a field of
\* the Model, of the constants or the module-level names, and a call that
\* ends after the first call with the first call's function and arguments
\* ends as the first call did: the same profile or the same exception.
C6_CallsArePure ==
    [][/\ m' = m
       /\ const' = const
       /\ H_global' = H_global
       /\ (/\ ret.kind = "none"
           /\ ret'.kind # "none"
           /\ first.ret.kind # "none"
           /\ args' = first.args) => ret' = first.ret]_vars
C6_Witness ==
    /\ first.later >= 1
    /\ ReturnedBy("Perol")
    /\ args = first.args
    /\ AllFinite(ret.T)

\* C7: with Pe > 0, every entry Perol has stored for a depth z = 0 equals
\* the basal pressure-melting point, and every entry stored for a depth
\* z = H equals the surface temperature, to numerical tolerance.
C7_PerolEndpoints ==
    (args.f = "Perol" /\ IsNum(loc.Pe) /\ FGt(loc.Pe, Py(0))) =>
        \A i \in 1..(loc.i - 1) :
            /\ IsZero(m.z[i]) => Near(loc.T[i], m.pmp[1])
            /\ FEq(m.z[i], m.H) => Near(loc.T[i], m.Ts)
C7_Witness ==
    /\ ReturnedBy("Perol")
    /\ FGt(loc.Pe, Py(0))
    /\ FGt(loc.S, Py(Scale))
    /\ BedToSurface
    /\ Len(ret.T) = 3

\* C8: a call of Robin_T re-solves at most once; a call that returns has
\* re-solved exactly when melt is on and the first pass's T[0] exceeds
\* m.pmp[0], and otherwise returns the first-pass profile unchanged.
C8_SingleResolve ==
    args.f = "Robin" =>
        /\ hist.resolves <= 1
        /\ ReturnedBy("Robin") =>
              /\ hist.resolves = 1 <=>
                     (args.melt /\ FGt(hist.firstT[1], m.pmp[1]))
              /\ hist.resolves = 0 => ret.T = hist.firstT
C8_Witness ==
    /\ ReturnedBy("Robin")
    /\ hist.resolves = 1
    /\ ret.T # hist.firstT
    /\ AllFinite(ret.T)

\* C9: a call of Rezvan_T with a nonzero driving stress returns the profile
\* of the effective flux m.qgeo + qgeo_s: T = Ts + factor(qgeo)*term2.
C9_StrainHeatingInProfile ==
    (ReturnedBy("Rezvan") /\ IsBound(loc.qgeo) /\ AllFinite(ret.T)) =>
        \A i \in 1..Len(ret.T) :
            Near(ret.T[i],
                 FAdd(m.Ts, FMul(Rezvan_Factor(loc.qgeo, loc.gamma, loc.phi),
                                 loc.term2[i])))

\* C10: a call of Rezvan_T with a nonzero slope and no explicit stress, on
\* inputs with no domain error, returns a profile, and its driving stress
\* is rho*g*m.H*|dHdx|.
C10_SlopeStressFromOwnThickness ==
    (/\ Finished("Rezvan")
     /\ ~FEq(args.dHdx, Py(0))
     /\ FEq(args.tau_dx, Py(0))
     /\ FGt(m.adot, Py(0))
     /\ ~RezvanDomainError) =>
        /\ ret.kind = "returned"
        /\ FEq(loc.tau_dx,
               FMul(FMul(FMul(const.rho, const.g), m.H), FAbs(args.dHdx)))
====
